---- MODULE Spec2Model ----
(***************************************************************************)
(* A model of ask_vera.py (the command-line driver) and vera_agent.py (the *)
(* VeraAgent class).  Strings are sequences of tokens: a token is either a *)
(* single character ("\n", ";", "-", a digit, a letter) or a literal chunk *)
(* of text that no operation of the program looks inside.                  *)
(***************************************************************************)
EXTENDS Integers, Sequences, FiniteSets, TLC

(***************************************************************************)
(* Bounds of the model.                                                    *)
(***************************************************************************)
MaxDomArgLen == 2      \* longest -d/--domains string explored by Spec
MaxCtxFiles  == 1      \* most -c/--context paths explored by Spec
MaxGenLen    == 2      \* longest list the domain-generation reply may hold
MaxWorkers   == 2      \* os.cpu_count() or 1
MaxDocLen    == 3      \* longest context document explored by SpecSplice
MaxDocs      == 2      \* most context documents explored by SpecSplice
MaxFragments == 2      \* most fragments explored by SpecSynth

(***************************************************************************)
(* Python built-ins the program uses.                                      *)
(***************************************************************************)
NL == "\n"

Min(a, b) == IF a < b THEN a ELSE b
Max(a, b) == IF a > b THEN a ELSE b

\* All sequences over S of length at most n.
SeqsUpTo(S, n) == UNION {[1..k -> S] : k \in 0..n}

\* s[:k]
PySliceTo(s, k) ==
    IF k >= 0 THEN SubSeq(s, 1, Min(k, Len(s)))
              ELSE SubSeq(s, 1, Max(Len(s) + k, 0))

\* s[k:]  (k >= 0 at every use)
PySliceFrom(s, k) == SubSeq(s, Min(k, Len(s)) + 1, Len(s))

\* s.find(ch, start): the 0-based index of the first ch at or after start,
\* or -1.
RECURSIVE PyFind(_, _, _)
PyFind(s, ch, start) ==
    IF start >= Len(s) THEN -1
    ELSE IF s[start + 1] = ch THEN start
    ELSE PyFind(s, ch, start + 1)

\* sep.join(parts)
RECURSIVE PyJoin(_, _)
PyJoin(sep, parts) ==
    IF Len(parts) = 0 THEN <<>>
    ELSE IF Len(parts) = 1 THEN parts[1]
    ELSE parts[1] \o sep \o PyJoin(sep, Tail(parts))

\* s.split(ch): always at least one piece.
RECURSIVE PySplit(_, _)
PySplit(s, ch) ==
    LET i == PyFind(s, ch, 0)
    IN  IF i = -1 THEN <<s>>
        ELSE <<SubSeq(s, 1, i)>> \o PySplit(SubSeq(s, i + 2, Len(s)), ch)

\* template.replace(token, value), for a placeholder that is one token.
RECURSIVE PyReplace(_, _, _)
PyReplace(s, token, value) ==
    IF Len(s) = 0 THEN <<>>
    ELSE (IF s[1] = token THEN value ELSE <<s[1]>>)
         \o PyReplace(Tail(s), token, value)

\* int(s): an optional sign followed by one or more decimal digits.
Digits == {"0", "1"}
DigitVal(c) == IF c = "0" THEN 0 ELSE 1

AllDigits(s) == Len(s) >= 1 /\ \A i \in 1..Len(s) : s[i] \in Digits

PyIsInt(s) ==
    \/ AllDigits(s)
    \/ Len(s) >= 2 /\ s[1] = "-" /\ AllDigits(Tail(s))

RECURSIVE DigitsValue(_)
DigitsValue(s) ==
    IF Len(s) = 0 THEN 0
    ELSE 10 * DigitsValue(SubSeq(s, 1, Len(s) - 1)) + DigitVal(s[Len(s)])

PyInt(s) == IF s[1] = "-" THEN 0 - DigitsValue(Tail(s)) ELSE DigitsValue(s)

\* str(n) for the one number the program formats (num_concepts).
PyStr(n) == <<ToString(n)>>

\* The number of positions of s at which sub occurs.
Occurrences(sub, s) ==
    Cardinality({i \in 1..(Len(s) - Len(sub) + 1) :
                    \/ Len(sub) = 0
                    \/ /\ s[i] = sub[1]
                       /\ SubSeq(s, i, i + Len(sub) - 1) = sub})

Contains(sub, s) == Occurrences(sub, s) >= 1

(***************************************************************************)
(* vera.yaml, the configuration VeraAgent loads.  Each template is text    *)
(* the program only concatenates, apart from the placeholder tokens it     *)
(* replaces.                                                               *)
(***************************************************************************)
Config ==
    [llm_model                  |-> "main-model",
     num_concepts               |-> 3,
     abstraction_intro_template |-> <<"INTRO">>,
     string_domains_template    |-> <<"DOMAINS(", "<domains>", ")">>,
     framework_template         |-> <<"FRAMEWORK(", "<num_concepts>", ")">>,
     mapping_template           |-> <<"MAPPING">>,
     requirements_template      |-> <<"REQUIREMENTS">>,
     synthesis_template         |-> <<"SYNTHESIS(", "{responses}",
                                      ")FOR(", "{query}", ")">>]

\* VeraAgent.__init__: the fields read from the configuration, with the
\* defaults of the keys vera.yaml leaves out.
llm_model                 == Config.llm_model
domains_llm_model         == llm_model
default_llm_temperature   == "0.8"
domains_llm_temperature   == "1.0"
synthesis_llm_temperature == "0.5"

\* str.format(responses=..., query=...) on the synthesis template: one
\* pass over the template, substituted text is not scanned again.
RECURSIVE PyFormat(_, _, _)
PyFormat(template, responses, query) ==
    IF Len(template) = 0 THEN <<>>
    ELSE (IF template[1] = "{responses}" THEN responses
          ELSE IF template[1] = "{query}" THEN query
          ELSE <<template[1]>>)
         \o PyFormat(Tail(template), responses, query)

(***************************************************************************)
(* The generation endpoint: what one POST can come back with.              *)
(***************************************************************************)
ErrorText       == <<"Error communicating with Ollama: ">>
PlaceholderText == <<"Failed to parse JSON response.">>

\* Replies of the endpoint to a domain call or the synthesis call.
FragmentTexts == {<<"r1">>}

\* json.dumps of the objects the domain-generation reply may carry.
JsonArray(items) == <<"[">> \o PyJoin(<<",">>, [i \in 1..Len(items) |-> <<items[i]>>]) \o <<"]">>
JsonDict(key, items) == <<"{", key, ":">> \o JsonArray(items) \o <<"}">>

GenNames == [i \in 1..MaxGenLen |-> "g" \o ToString(i)]

DomainReplyTexts ==
    {JsonDict("domains", SubSeq(GenNames, 1, k)) : k \in 0..MaxGenLen}
    \cup {JsonDict("perspectives", <<"g1">>), <<"{", "}">>,
          JsonArray(<<"g1">>), <<"r1">>}

\* The outcomes of requests.post + raise_for_status + response.json().
\* kind        what happened
\* reqexc      whether the JSON error of response.json() is a
\*             requests.exceptions.RequestException (it is in the releases
\*             of requests that define requests.exceptions.JSONDecodeError)
Outcome(kind, text, reqexc) == [kind |-> kind, text |-> text, reqexc |-> reqexc]

Outcomes(texts) ==
    {Outcome("transport_failure", <<>>, FALSE),
     Outcome("http_error", <<>>, FALSE),
     Outcome("not_json", <<>>, TRUE),
     Outcome("not_json", <<>>, FALSE),
     Outcome("no_response_field", <<>>, FALSE)}
    \cup {Outcome("ok", t, FALSE) : t \in texts}

\* What a call returns to its caller: a (text, context) pair, or an
\* exception that propagates.
Returned(text, context) ==
    [raised |-> FALSE, exc |-> "", text |-> text, context |-> context]
Raised(exc) ==
    [raised |-> TRUE, exc |-> exc, text |-> <<>>, context |-> "None"]

\* VeraAgent._call_ollama, given the outcome of its one POST.
CallOllama(outcome) ==
    CASE outcome.kind = "ok" -> Returned(outcome.text, "context")
      [] outcome.kind \in {"transport_failure", "http_error"} ->
            Returned(ErrorText, "None")
      [] outcome.kind = "not_json" ->
            IF outcome.reqexc THEN Returned(ErrorText, "None")
                              ELSE Returned(PlaceholderText, "None")
      [] outcome.kind = "no_response_field" -> Raised("KeyError")

\* The request _call_ollama posts.
Request(purpose, prompt, model, temperature, json_mode) ==
    [purpose |-> purpose, prompt |-> prompt, model |-> model,
     temperature |-> temperature, json_mode |-> json_mode]

(***************************************************************************)
(* json.loads on the reply of the domain-generation call.                  *)
(***************************************************************************)
IsPunct(t) == t \in {"{", "}", "[", "]", ":", ","}

ItemsOk(inner) ==
    \/ Len(inner) = 0
    \/ /\ Len(inner) % 2 = 1
       /\ \A i \in 1..Len(inner) :
            IF i % 2 = 1 THEN ~IsPunct(inner[i]) ELSE inner[i] = ","

ItemsOf(inner) == [i \in 1..((Len(inner) + 1) \div 2) |-> inner[2 * i - 1]]

IsJsonArray(t) ==
    /\ Len(t) >= 2
    /\ t[1] = "[" /\ t[Len(t)] = "]"
    /\ ItemsOk(SubSeq(t, 2, Len(t) - 1))

IsJsonDict(t) ==
    \/ t = <<"{", "}">>
    \/ /\ Len(t) >= 6
       /\ t[1] = "{" /\ t[Len(t)] = "}"
       /\ ~IsPunct(t[2]) /\ t[3] = ":"
       /\ IsJsonArray(SubSeq(t, 4, Len(t) - 1))

\* type is "dict", "list" or "error" (json.JSONDecodeError).
JsonLoads(t) ==
    IF IsJsonArray(t)
    THEN [type |-> "list", key |-> "", items |-> ItemsOf(SubSeq(t, 2, Len(t) - 1))]
    ELSE IF IsJsonDict(t)
    THEN IF Len(t) = 2
         THEN [type |-> "dict", key |-> "", items |-> <<>>]
         ELSE [type |-> "dict", key |-> t[2],
               items |-> ItemsOf(SubSeq(t, 5, Len(t) - 2))]
    ELSE [type |-> "error", key |-> "", items |-> <<>>]

(***************************************************************************)
(* VeraAgent: the methods main calls.                                      *)
(***************************************************************************)
\* The prompt _generate_list_from_llm builds.
ListPrompt(list_type, count) ==
    <<"Generate ", ToString(count), " diverse and unrelated ", list_type>>

\* VeraAgent._generate_list_from_llm, given what _call_ollama came back
\* with: the list it returns, or the exception that leaves it.
GenerateListFromLlm(list_type, count, reply) ==
    IF reply.raised THEN [raised |-> TRUE, exc |-> reply.exc, list |-> <<>>]
    ELSE LET json_response == JsonLoads(reply.text)
         IN  CASE json_response.type = "error" ->
                    [raised |-> FALSE, exc |-> "", list |-> <<>>]
               [] json_response.type = "list" ->
                    [raised |-> TRUE, exc |-> "AttributeError", list |-> <<>>]
               [] json_response.type = "dict" ->
                    LET generated_list ==
                            IF json_response.key = list_type
                            THEN [i \in 1..Len(json_response.items) |->
                                     <<json_response.items[i]>>]
                            ELSE <<>>
                    IN  [raised |-> FALSE, exc |-> "",
                         list |-> PySliceTo(generated_list, count)]

\* VeraAgent.get_instruction_prompt
get_instruction_prompt(domain) ==
    LET framework_template ==
            PyReplace(Config.framework_template, "<num_concepts>",
                      PyStr(Config.num_concepts))
    IN  Config.abstraction_intro_template
        \o PyReplace(Config.string_domains_template, "<domains>", domain)
        \o framework_template
        \o Config.mapping_template
        \o Config.requirements_template

\* The block get_intelligent_context inserts.
insertion_text(instruction_prompt, original_query) ==
    <<NL, NL>> \o instruction_prompt \o <<NL, NL>>
    \o <<"QUESTION:", NL, NL, "** ">> \o original_query \o <<" **", NL, NL>>

\* A split just after the newline found, instead of at it.
SplitPoint_AfterNewline(full_context) ==
    LET midpoint    == Len(full_context) \div 2
        split_point == PyFind(full_context, NL, midpoint)
    IN  IF split_point = -1 THEN midpoint ELSE split_point + 1

\* The index at which get_intelligent_context splits the joined context.
SplitPoint(full_context) ==
    LET midpoint    == Len(full_context) \div 2
        split_point == PyFind(full_context, NL, midpoint)
    IN  IF split_point = -1 THEN midpoint ELSE split_point

\* A splice that resumes the context one character late.
get_intelligent_context_Lossy(instruction_prompt, original_query, context_files) ==
    LET full_context == PyJoin(<<NL, NL>>, context_files)
        midpoint     == Len(full_context) \div 2
        found        == PyFind(full_context, NL, midpoint)
        split_point  == IF found = -1 THEN midpoint ELSE found
    IN  PySliceTo(full_context, split_point)
        \o insertion_text(instruction_prompt, original_query)
        \o PySliceFrom(full_context, split_point + 1)

\* VeraAgent.get_intelligent_context
get_intelligent_context(instruction_prompt, original_query, context_files) ==
    LET full_context == PyJoin(<<NL, NL>>, context_files)
        split_point  == SplitPoint(full_context)
    IN  PySliceTo(full_context, split_point)
        \o insertion_text(instruction_prompt, original_query)
        \o PySliceFrom(full_context, split_point)

\* A prompt that leaves out the reminder.
FinalPrompt_NoReminder(original_query, domain, full_context) ==
    LET instruction_prompt == get_instruction_prompt(domain)
    IN  IF Len(full_context) > 0
        THEN <<"INSTRUCTION PROMPT:", NL, NL>> \o instruction_prompt
             \o <<NL, NL>> \o original_query
             \o <<NL, NL, "CONTEXT:", NL, NL>> \o full_context
        ELSE <<"INSTRUCTION PROMPT:", NL, NL>> \o instruction_prompt
             \o <<NL, NL>> \o original_query

\* The prompt VeraAgent.process_domain builds.
FinalPrompt(original_query, domain, full_context) ==
    LET instruction_prompt == get_instruction_prompt(domain)
    IN  IF Len(full_context) > 0
        THEN <<"INSTRUCTION PROMPT:", NL, NL>> \o instruction_prompt
             \o <<NL, NL>> \o original_query
             \o <<NL, NL, "CONTEXT:", NL, NL>> \o full_context
             \o <<NL, NL, "** REMINDER **", NL, NL>>
             \o <<"INSTRUCTION PROMPT:", NL, NL>> \o instruction_prompt
             \o <<NL, NL>> \o original_query
        ELSE <<"INSTRUCTION PROMPT:", NL, NL>> \o instruction_prompt
             \o <<NL, NL>> \o original_query

\* The request VeraAgent.process_domain posts.
DomainRequest(original_query, domain, full_context) ==
    Request("domain", FinalPrompt(original_query, domain, full_context),
            llm_model, default_llm_temperature, FALSE)

\* A substitution by two replace calls, the second of which also rewrites
\* the fragments.
SynthesisPrompt_Rescan(original_query, individual_responses) ==
    PyReplace(PyReplace(Config.synthesis_template, "{responses}",
                        PyJoin(<<NL>>, individual_responses)),
              "{query}", original_query)

\* The prompt VeraAgent.synthesize_wisdom builds.
SynthesisPrompt(original_query, individual_responses) ==
    PyFormat(Config.synthesis_template,
             PyJoin(<<NL>>, individual_responses), original_query)

\* The request VeraAgent.synthesize_wisdom posts.
SynthesisRequest(original_query, individual_responses) ==
    Request("synthesis", SynthesisPrompt(original_query, individual_responses),
            llm_model, synthesis_llm_temperature, FALSE)

\* The request VeraAgent._generate_list_from_llm posts.
ListRequest(list_type, count) ==
    Request(list_type, ListPrompt(list_type, count),
            domains_llm_model, domains_llm_temperature, TRUE)

(***************************************************************************)
(* ask_vera.py: the state of one run of main.                              *)
(***************************************************************************)
VARIABLES
    env,                    \* the command line and the files it names
    pc,                     \* where main is
    exit_status,            \* "running", or the status "0" or "1" of the exit
    uncaught,               \* the exception that ended main, or "None"
    original_query,
    context_files_content,
    num_domains,
    domains,                \* [none, list]: None or the explicit list
    full_context_for_llm,
    domains_used,
    futures,                \* one [domain, state, result] per submitted task
    work_queue,             \* the pool's queue of tasks not yet started
    waiter,                 \* as_completed: [installed, finished, queue, yielded]
    individual_responses,
    calls,                  \* the requests posted so far, in order
    generation_reply,       \* what the domain-generation POST came back with
    final_wisdom,
    synthesis_prompt

vars == <<env, pc, exit_status, uncaught, original_query,
          context_files_content, num_domains, domains, full_context_for_llm,
          domains_used, futures, work_queue, waiter, individual_responses,
          calls, generation_reply, final_wisdom, synthesis_prompt>>

\* The command lines and file systems explored.
DomainArgChars == {"1", "-", ";", "x"}
DomainArgs     == SeqsUpTo(DomainArgChars, MaxDomArgLen)
QueryArg       == <<"what?">>
QueryFileText  == <<"why?", NL>>

\* A path named on the command line: whether a file is there, and its text.
File(exists, text) == [exists |-> exists, text |-> text]
MissingFile  == File(FALSE, <<>>)
QueryFiles   == {MissingFile, File(TRUE, QueryFileText)}
ContextFiles == {MissingFile, File(TRUE, <<"a", NL, "b">>)}

\* file     args.file: whether --file was given, and the file it names
\* query    args.query (empty: not given)
\* context  the files args.context names (empty: not given)
\* domains  args.domains
\* yaml     whether vera.yaml is there
Envs ==
    [file    : {[given |-> FALSE, path |-> MissingFile]}
               \cup {[given |-> TRUE, path |-> f] : f \in QueryFiles},
     query   : {<<>>, QueryArg},
     context : SeqsUpTo(ContextFiles, MaxCtxFiles),
     domains : DomainArgs,
     yaml    : BOOLEAN]

NoReply == Outcome("none", <<>>, FALSE)

NoWaiter == [installed |-> FALSE, finished |-> {}, queue |-> <<>>, yielded |-> {}]

\* The state when main starts, after parse_args.
Start(e) ==
    /\ env = e
    /\ pc = "read_query"
    /\ exit_status = "running"
    /\ uncaught = "None"
    /\ original_query = <<>>
    /\ context_files_content = <<>>
    /\ num_domains = 0
    /\ domains = [none |-> TRUE, list |-> <<>>]
    /\ full_context_for_llm = <<>>
    /\ domains_used = <<>>
    /\ futures = <<>>
    /\ work_queue = <<>>
    /\ waiter = NoWaiter
    /\ individual_responses = <<>>
    /\ calls = <<>>
    /\ generation_reply = NoReply
    /\ final_wisdom = <<>>
    /\ synthesis_prompt = <<>>

Init == \E e \in Envs : Start(e)

\* sys.exit(1)
Exit1 ==
    /\ pc' = "exited"
    /\ exit_status' = "1"

\* An exception nothing catches: the interpreter prints the traceback and
\* the process ends with status 1.
Crash(exc) ==
    /\ pc' = "crashed"
    /\ exit_status' = "1"
    /\ uncaught' = exc

\* main, lines 61-73: the query from --file or from the command line.
ReadQuery ==
    /\ pc = "read_query"
    /\ IF env.file.given
       THEN IF env.file.path.exists
            THEN /\ original_query' = env.file.path.text
                 /\ pc' = "read_context"
                 /\ UNCHANGED exit_status
            ELSE /\ Exit1
                 /\ UNCHANGED original_query
       ELSE IF Len(env.query) > 0
            THEN /\ original_query' = env.query
                 /\ pc' = "read_context"
                 /\ UNCHANGED exit_status
            ELSE /\ Exit1
                 /\ UNCHANGED original_query
    /\ UNCHANGED <<env, uncaught, context_files_content, num_domains, domains,
                   full_context_for_llm, domains_used, futures, work_queue,
                   waiter, individual_responses, calls, final_wisdom,
                   synthesis_prompt,
                   generation_reply>>

\* main, lines 75-85: one turn of the loop over args.context.
ReadContextFile ==
    /\ pc = "read_context"
    /\ Len(context_files_content) < Len(env.context)
    /\ LET file_path == env.context[Len(context_files_content) + 1]
       IN  IF file_path.exists
           THEN /\ context_files_content' =
                        Append(context_files_content, file_path.text)
                /\ UNCHANGED <<pc, exit_status>>
           ELSE /\ Exit1
                /\ UNCHANGED context_files_content
    /\ UNCHANGED <<env, uncaught, original_query, num_domains, domains,
                   full_context_for_llm, domains_used, futures, work_queue,
                   waiter, individual_responses, calls, final_wisdom,
                   synthesis_prompt,
                   generation_reply>>

\* main, lines 87-93: int(args.domains), or the split on ";".
ParseDomains ==
    /\ pc = "read_context"
    /\ Len(context_files_content) = Len(env.context)
    /\ IF PyIsInt(env.domains)
       THEN /\ num_domains' = PyInt(env.domains)
            /\ domains' = [none |-> TRUE, list |-> <<>>]
       ELSE /\ domains' = [none |-> FALSE, list |-> PySplit(env.domains, ";")]
            /\ num_domains' = Len(PySplit(env.domains, ";"))
    /\ pc' = "init_agent"
    /\ UNCHANGED <<env, exit_status, uncaught, original_query,
                   context_files_content, full_context_for_llm, domains_used,
                   futures, work_queue, waiter, individual_responses, calls,
                   final_wisdom, synthesis_prompt,
                   generation_reply>>

\* An agent that goes on without its configuration.
InitAgent_NoExit ==
    /\ pc = "init_agent"
    /\ pc' = "build_context"
    /\ UNCHANGED <<env, exit_status, uncaught, original_query,
                   context_files_content, num_domains, domains,
                   full_context_for_llm, domains_used, futures, work_queue,
                   waiter, individual_responses, calls, generation_reply,
                   final_wisdom, synthesis_prompt>>

\* main, line 96: VeraAgent(), which loads vera.yaml or exits.
InitAgent ==
    /\ pc = "init_agent"
    /\ IF env.yaml
       THEN /\ pc' = "build_context"
            /\ UNCHANGED exit_status
       ELSE Exit1
    /\ UNCHANGED <<env, uncaught, original_query, context_files_content,
                   num_domains, domains, full_context_for_llm, domains_used,
                   futures, work_queue, waiter, individual_responses, calls,
                   final_wisdom, synthesis_prompt,
                   generation_reply>>

\* main, lines 98-116: the instruction prompt of the placeholder domain,
\* spliced into the context when there is one.
DummyDomain == <<"<dummy_domain_for_print>">>

BuildContext ==
    /\ pc = "build_context"
    /\ LET instruction_prompt == get_instruction_prompt(DummyDomain)
       IN  full_context_for_llm' =
             IF Len(context_files_content) > 0
             THEN get_intelligent_context(instruction_prompt, original_query,
                                          context_files_content)
             ELSE <<>>
    /\ pc' = "get_domains"
    /\ UNCHANGED <<env, exit_status, uncaught, original_query,
                   context_files_content, num_domains, domains, domains_used,
                   futures, work_queue, waiter, individual_responses, calls,
                   final_wisdom, synthesis_prompt,
                   generation_reply>>

\* main, line 121: domains or num_domains
DomainsInput(doms, num) ==
    IF ~doms.none /\ Len(doms.list) > 0
    THEN [isint |-> FALSE, n |-> 0, list |-> doms.list]
    ELSE [isint |-> TRUE, n |-> num, list |-> <<>>]

\* VeraAgent.get_domains, given what the domain-generation call (made only
\* for an int) came back with.
get_domains(domains_input, reply) ==
    IF domains_input.isint
    THEN GenerateListFromLlm("domains", domains_input.n, reply)
    ELSE [raised |-> FALSE, exc |-> "", list |-> domains_input.list]

\* main, lines 118-127: resolve the domains.  The generation call is made
\* only for a count.
Resolved(got) ==
    IF got.raised
    THEN /\ Crash(got.exc)
         /\ UNCHANGED domains_used
    ELSE /\ domains_used' = got.list
         /\ pc' = "submit"
         /\ UNCHANGED <<exit_status, uncaught>>

GetDomains ==
    /\ pc = "get_domains"
    /\ LET domains_input == DomainsInput(domains, num_domains)
       IN  IF domains_input.isint
           THEN \E outcome \in Outcomes(DomainReplyTexts) :
                  /\ calls' = Append(calls,
                                     ListRequest("domains", domains_input.n))
                  /\ generation_reply' = outcome
                  /\ Resolved(get_domains(domains_input, CallOllama(outcome)))
           ELSE /\ UNCHANGED <<calls, generation_reply>>
                /\ Resolved(get_domains(domains_input, Returned(<<>>, "None")))
    /\ UNCHANGED <<env, original_query, context_files_content, num_domains,
                   domains, full_context_for_llm, futures, work_queue, waiter,
                   individual_responses, final_wisdom, synthesis_prompt>>

Done(i)    == futures[i].state \in {"returned", "raised"}
Running    == {i \in 1..Len(futures) : futures[i].state = "running"}

\* main, lines 132-135: executor.submit for the next domain.
Submit ==
    /\ pc = "submit"
    /\ Len(futures) < Len(domains_used)
    /\ futures' = Append(futures,
                         [domain |-> domains_used[Len(futures) + 1],
                          state |-> "queued", result |-> <<>>, exc |-> ""])
    /\ work_queue' = Append(work_queue, Len(futures) + 1)
    /\ UNCHANGED <<env, pc, exit_status, uncaught, original_query,
                   context_files_content, num_domains, domains,
                   full_context_for_llm, domains_used, waiter,
                   individual_responses, calls, final_wisdom, synthesis_prompt,
                   generation_reply>>

\* A pool thread takes the next task and runs process_domain up to its POST.
WorkerStart ==
    /\ Len(work_queue) > 0
    /\ Cardinality(Running) < MaxWorkers
    /\ LET i == Head(work_queue)
       IN  /\ futures' = [futures EXCEPT ![i].state = "running"]
           /\ calls' = Append(calls,
                              DomainRequest(original_query, futures[i].domain,
                                            full_context_for_llm))
    /\ work_queue' = Tail(work_queue)
    /\ UNCHANGED <<env, pc, exit_status, uncaught, original_query,
                   context_files_content, num_domains, domains,
                   full_context_for_llm, domains_used, waiter,
                   individual_responses, final_wisdom, synthesis_prompt,
                   generation_reply>>

\* The POST of a running task comes back: process_domain returns or raises,
\* the future is set and the waiter of as_completed, if any, is told.
WorkerFinish ==
    \E i \in Running :
      \E outcome \in Outcomes(FragmentTexts) :
        LET reply == CallOllama(outcome)
        IN  /\ futures' = [futures EXCEPT
                             ![i].state = IF reply.raised THEN "raised"
                                                          ELSE "returned",
                             ![i].result = reply.text,
                             ![i].exc = reply.exc]
            /\ waiter' = IF waiter.installed
                         THEN [waiter EXCEPT !.queue = Append(@, i)]
                         ELSE waiter
            /\ UNCHANGED <<env, pc, exit_status, uncaught, original_query,
                           context_files_content, num_domains, domains,
                           full_context_for_llm, domains_used, work_queue,
                           individual_responses, calls, final_wisdom,
                           synthesis_prompt,
                   generation_reply>>

\* main, line 136: as_completed(future_to_domain) starts: the futures
\* already done are set aside, a waiter is installed on the others.
AsCompleted ==
    /\ pc = "submit"
    /\ Len(futures) = Len(domains_used)
    /\ waiter' = [installed |-> TRUE,
                  finished  |-> {i \in 1..Len(futures) : Done(i)},
                  queue     |-> <<>>,
                  yielded   |-> {}]
    /\ pc' = "collect"
    /\ UNCHANGED <<env, exit_status, uncaught, original_query,
                   context_files_content, num_domains, domains,
                   full_context_for_llm, domains_used, futures, work_queue,
                   individual_responses, calls, final_wisdom, synthesis_prompt,
                   generation_reply>>

\* A loop body without the try: the exception of a task leaves main.
CollectFuture_Uncaught(i) ==
    /\ IF futures[i].state = "returned"
       THEN /\ individual_responses' =
                    Append(individual_responses, futures[i].result)
            /\ UNCHANGED <<pc, exit_status, uncaught>>
       ELSE /\ Crash(futures[i].exc)
            /\ UNCHANGED individual_responses
    /\ UNCHANGED <<env, original_query, context_files_content, num_domains,
                   domains, full_context_for_llm, domains_used, futures,
                   work_queue, calls, generation_reply, final_wisdom,
                   synthesis_prompt>>

\* main, lines 137-143: the body of the loop for future i.
CollectFuture(i) ==
    /\ individual_responses' =
         IF futures[i].state = "returned"
         THEN Append(individual_responses, futures[i].result)
         ELSE individual_responses
    /\ UNCHANGED <<env, pc, exit_status, uncaught, original_query,
                   context_files_content, num_domains, domains,
                   full_context_for_llm, domains_used, futures, work_queue,
                   calls, final_wisdom, synthesis_prompt,
                   generation_reply>>

\* as_completed yields a future that was done when it started (in the order
\* of a set) ...
CollectFinished ==
    /\ pc = "collect"
    /\ \E i \in waiter.finished :
         /\ waiter' = [waiter EXCEPT !.finished = @ \ {i},
                                     !.yielded = @ \cup {i}]
         /\ CollectFuture(i)

\* ... and then the others in the order they complete.
CollectCompleted ==
    /\ pc = "collect"
    /\ waiter.finished = {}
    /\ Len(waiter.queue) > 0
    /\ LET i == Head(waiter.queue)
       IN  /\ waiter' = [waiter EXCEPT !.queue = Tail(@),
                                       !.yielded = @ \cup {i}]
           /\ CollectFuture(i)

\* A loop that ends as soon as no finished future is at hand.
Shutdown_Early ==
    /\ pc = "collect"
    /\ waiter.finished = {}
    /\ Len(waiter.queue) = 0
    /\ pc' = "synthesize"
    /\ UNCHANGED <<env, exit_status, uncaught, original_query,
                   context_files_content, num_domains, domains,
                   full_context_for_llm, domains_used, futures, work_queue,
                   waiter, individual_responses, calls, generation_reply,
                   final_wisdom, synthesis_prompt>>

\* main, line 131: the with block ends once as_completed is exhausted;
\* executor.shutdown(wait=True) finds every task done.
Shutdown ==
    /\ pc = "collect"
    /\ waiter.yielded = 1..Len(futures)
    /\ pc' = "synthesize"
    /\ UNCHANGED <<env, exit_status, uncaught, original_query,
                   context_files_content, num_domains, domains,
                   full_context_for_llm, domains_used, futures, work_queue,
                   waiter, individual_responses, calls, final_wisdom,
                   synthesis_prompt,
                   generation_reply>>

\* main, lines 145-150: agent.synthesize_wisdom.
Synthesize ==
    /\ pc = "synthesize"
    /\ calls' = Append(calls, SynthesisRequest(original_query,
                                               individual_responses))
    /\ \E outcome \in Outcomes(FragmentTexts) :
         LET reply == CallOllama(outcome)
         IN  IF reply.raised
             THEN /\ Crash(reply.exc)
                  /\ UNCHANGED <<final_wisdom, synthesis_prompt>>
             ELSE /\ final_wisdom' = reply.text
                  /\ synthesis_prompt' =
                        SynthesisPrompt(original_query, individual_responses)
                  /\ pc' = "report"
                  /\ UNCHANGED <<exit_status, uncaught>>
    /\ UNCHANGED <<env, original_query, context_files_content, num_domains,
                   domains, full_context_for_llm, domains_used, futures,
                   work_queue, waiter, individual_responses,
                   generation_reply>>

\* main, lines 152-165: the report, and the normal end of the process.
Report ==
    /\ pc = "report"
    /\ pc' = "done"
    /\ exit_status' = "0"
    /\ UNCHANGED <<env, uncaught, original_query, context_files_content,
                   num_domains, domains, full_context_for_llm, domains_used,
                   futures, work_queue, waiter, individual_responses, calls,
                   final_wisdom, synthesis_prompt,
                   generation_reply>>

Next ==
    \/ ReadQuery
    \/ ReadContextFile
    \/ ParseDomains
    \/ InitAgent
    \/ BuildContext
    \/ GetDomains
    \/ Submit
    \/ WorkerStart
    \/ WorkerFinish
    \/ AsCompleted
    \/ CollectFinished
    \/ CollectCompleted
    \/ Shutdown
    \/ Synthesize
    \/ Report

Spec == Init /\ [][Next]_vars

(***************************************************************************)
(* SpecSplice: the run up to the splice, over every small set of context   *)
(* documents.                                                              *)
(***************************************************************************)
DocChars      == {"a", NL}
Documents     == SeqsUpTo(DocChars, MaxDocLen)
SpliceQueries == {QueryArg, QueryFileText}

EnvsSplice ==
    [file    : {[given |-> FALSE, path |-> MissingFile]},
     query   : SpliceQueries,
     context : {fs \in SeqsUpTo({File(TRUE, d) : d \in Documents}, MaxDocs) :
                   Len(fs) >= 1},
     domains : {<<"x">>},
     yaml    : {TRUE}]

InitSplice == \E e \in EnvsSplice : Start(e)

NextSplice ==
    \/ ReadQuery
    \/ ReadContextFile
    \/ ParseDomains
    \/ InitAgent
    \/ BuildContext

SpecSplice == InitSplice /\ [][NextSplice]_vars

(***************************************************************************)
(* SpecSynth: synthesize_wisdom over every small sequence of fragments.    *)
(***************************************************************************)
SynthTexts   == {<<>>, <<"A">>, <<"B", NL>>, <<"{query}">>}
SynthQueries == {QueryArg, <<"{responses}">>}

\* The state in which main reaches line 147 with fragments F of n domains
\* "x" (of no domain, when the generated list was empty).
AtSynthesis(q, F) ==
    LET n == Len(F)
        X == [i \in 1..n |-> <<"x">>]
    IN  /\ env = [file    |-> [given |-> FALSE, path |-> MissingFile],
                  query   |-> q,
                  context |-> <<>>,
                  domains |-> IF n = 0 THEN <<"0">> ELSE PyJoin(<<";">>, X),
                  yaml    |-> TRUE]
        /\ pc = "synthesize"
        /\ exit_status = "running"
        /\ uncaught = "None"
        /\ original_query = q
        /\ context_files_content = <<>>
        /\ num_domains = n
        /\ domains = IF n = 0 THEN [none |-> TRUE, list |-> <<>>]
                              ELSE [none |-> FALSE, list |-> X]
        /\ full_context_for_llm = <<>>
        /\ domains_used = X
        /\ futures = [i \in 1..n |-> [domain |-> <<"x">>, state |-> "returned",
                                      result |-> F[i], exc |-> ""]]
        /\ work_queue = <<>>
        /\ waiter = [installed |-> TRUE, finished |-> {}, queue |-> <<>>,
                     yielded |-> 1..n]
        /\ individual_responses = F
        /\ calls = (IF n = 0 THEN <<ListRequest("domains", 0)>> ELSE <<>>)
                   \o [i \in 1..n |-> DomainRequest(q, <<"x">>, <<>>)]
        /\ generation_reply =
             IF n = 0 THEN Outcome("ok", JsonDict("domains", <<>>), FALSE)
                      ELSE NoReply
        /\ final_wisdom = <<>>
        /\ synthesis_prompt = <<>>

InitSynth ==
    \E q \in SynthQueries :
      \E F \in SeqsUpTo(SynthTexts, MaxFragments) : AtSynthesis(q, F)

NextSynth ==
    \/ Synthesize
    \/ Report

SpecSynth == InitSynth /\ [][NextSynth]_vars

(***************************************************************************)
(* What the claims speak of.                                               *)
(***************************************************************************)
CallsOf(purpose) == {j \in 1..Len(calls) : calls[j].purpose = purpose}

SynthesisCalls  == CallsOf("synthesis")
DomainCalls     == CallsOf("domain")
GenerationCalls == CallsOf("domains")

ResolvedCount == Len(domains_used)
Started       == {i \in 1..Len(futures) : futures[i].state # "queued"}
RaisedTasks   == {i \in 1..Len(futures) : futures[i].state = "raised"}
ReturnedTasks == {i \in 1..Len(futures) : futures[i].state = "returned"}
AllDone       == Len(futures) = ResolvedCount /\ \A i \in 1..Len(futures) : Done(i)

\* The call of task i: the pool starts the tasks in the order of submission.
CallOfTask(i) == calls[Cardinality(GenerationCalls) + i]

\* main has called synthesize_wisdom.
SynthesisReached == pc \in {"report", "done"} \/ (pc = "crashed" /\ SynthesisCalls # {})

(***************************************************************************)
(* C1.  Fan-out fault isolation: whatever subset of the domain tasks       *)
(* raises, and however the pool interleaves them, no task is skipped, main *)
(* collects exactly one response per task that returned (N - k), the       *)
(* exception of a task never leaves main, the run can always go on until   *)
(* the synthesis, and synthesize_wisdom is called exactly once.            *)
(***************************************************************************)
C1_FanOutFaultIsolation ==
    /\ Cardinality(SynthesisCalls) <= 1
    /\ (pc = "synthesize" \/ SynthesisReached) =>
          /\ AllDone
          /\ Len(individual_responses) = ResolvedCount - Cardinality(RaisedTasks)
    /\ pc = "synthesize" => SynthesisCalls = {}
    /\ SynthesisReached => Cardinality(SynthesisCalls) = 1
    /\ (pc = "crashed" /\ SynthesisCalls = {}) => futures = <<>>
    /\ pc \in {"submit", "collect", "synthesize", "report"} => ENABLED Next

C1_Witness ==
    /\ pc = "done"
    /\ ResolvedCount >= 2
    /\ Cardinality(RaisedTasks) = 1
    /\ Len(individual_responses) = ResolvedCount - 1

(***************************************************************************)
(* C2.  Fan-in ordering and completeness: the tasks started so far have    *)
(* made one call each, in a prompt that names their domain; a synthesis    *)
(* call is the last call of the run, made when every resolved domain has   *)
(* had its one call and every task is done; and its prompt contains the    *)
(* response of every task that returned, whatever order they came in.      *)
(***************************************************************************)
C2_FanInOrdering ==
    /\ Cardinality(DomainCalls) = Cardinality(Started)
    /\ \A i \in Started :
          /\ CallOfTask(i).purpose = "domain"
          /\ Contains(domains_used[i], CallOfTask(i).prompt)
    /\ \A j \in SynthesisCalls :
          /\ j = Len(calls)
          /\ AllDone
          /\ Cardinality(DomainCalls) = ResolvedCount
          /\ Len(work_queue) = 0
          /\ Len(individual_responses) = Cardinality(ReturnedTasks)
          /\ \A i \in ReturnedTasks :
                /\ Contains(futures[i].result, calls[j].prompt)
                /\ \E k \in 1..Len(individual_responses) :
                      individual_responses[k] = futures[i].result

C2_Witness ==
    /\ pc = "done"
    /\ Len(futures) = 2
    /\ ReturnedTasks = {1, 2}
    /\ futures[1].result # futures[2].result
    /\ individual_responses = <<futures[2].result, futures[1].result>>

(***************************************************************************)
(* C3.  Degrade-to-string, as claimed: no POST that has come back made     *)
(* _call_ollama raise, so no task ended with an exception of the call and  *)
(* no KeyError ended the process.                                          *)
(***************************************************************************)
C3_DegradeToString ==
    /\ \A i \in 1..Len(futures) : futures[i].exc # "KeyError"
    /\ uncaught # "KeyError"

(***************************************************************************)
(* C4.  Domain-generation failure, as claimed: when the generation call    *)
(* comes back with an error string, with text that is not JSON or with     *)
(* JSON without the 'domains' key, get_domains returns the empty list      *)
(* without raising: the run does not crash there and fans out to nothing.  *)
(***************************************************************************)
GenerationFailed(reply) ==
    \/ reply.kind \in {"transport_failure", "http_error", "not_json"}
    \/ /\ reply.kind = "ok"
       /\ \/ ~IsJsonArray(reply.text) /\ ~IsJsonDict(reply.text)
          \/ IsJsonArray(reply.text)
          \/ IsJsonDict(reply.text) /\ (Len(reply.text) = 2 \/ reply.text[2] # "domains")

C4_GenerationFailureIsEmptyRun ==
    GenerationFailed(generation_reply) =>
        /\ ~(pc = "crashed" /\ SynthesisCalls = {})
        /\ domains_used = <<>>
        /\ futures = <<>>
        /\ DomainCalls = {}

(***************************************************************************)
(* C5.  Domains-argument precedence, as claimed: once the domains are      *)
(* resolved, a -d string that parses as an integer N has caused exactly    *)
(* one generation call, asking for N domains, and the domains used are a   *)
(* prefix of at most N entries of the generated list; any other string has *)
(* caused no generation call and the domains used are its pieces between   *)
(* the semicolons.                                                         *)
(***************************************************************************)
GeneratedList ==
    IF generation_reply.kind = "ok" /\ IsJsonDict(generation_reply.text)
       /\ Len(generation_reply.text) > 2 /\ generation_reply.text[2] = "domains"
    THEN LET t == generation_reply.text
         IN  [i \in 1..((Len(t) - 5) \div 2) |-> <<t[3 + 2 * i]>>]
    ELSE <<>>

IsPrefix(a, b) == Len(a) <= Len(b) /\ SubSeq(b, 1, Len(a)) = a

\* The pieces of s between the semicolons.
Pieces(s) ==
    LET cuts == {0} \cup {i \in 1..Len(s) : s[i] = ";"} \cup {Len(s) + 1}
        nxt(c) == CHOOSE d \in cuts : d > c /\ \A e \in cuts : e > c => d <= e
        RECURSIVE from(_)
        from(c) == IF c = Len(s) + 1 THEN <<>>
                   ELSE <<SubSeq(s, c + 1, nxt(c) - 1)>> \o from(nxt(c))
    IN  from(0)

C5_DomainsArgumentPrecedence ==
    pc \in {"submit", "collect", "synthesize", "report", "done"} =>
        IF PyIsInt(env.domains)
        THEN /\ Cardinality(GenerationCalls) = 1
             /\ calls[1].purpose = "domains"
             /\ calls[1].prompt[2] = ToString(PyInt(env.domains))
             /\ IsPrefix(domains_used, GeneratedList)
             /\ Len(domains_used) <= Max(PyInt(env.domains), 0)
        ELSE /\ GenerationCalls = {}
             /\ domains_used = Pieces(env.domains)

(***************************************************************************)
(* The splice, as the claims describe it.                                  *)
(***************************************************************************)
\* The documents joined by a blank line.
RECURSIVE JoinedByBlankLine(_)
JoinedByBlankLine(docs) ==
    IF Len(docs) = 0 THEN <<>>
    ELSE IF Len(docs) = 1 THEN docs[1]
    ELSE JoinedByBlankLine(SubSeq(docs, 1, Len(docs) - 1))
         \o <<NL, NL>> \o docs[Len(docs)]

Blob == JoinedByBlankLine(context_files_content)

\* The 0-based indices of the newlines of blob at or after its midpoint.
NewlinesFromMidpoint(blob) ==
    {i \in (Len(blob) \div 2)..(Len(blob) - 1) : blob[i + 1] = NL}

FirstNewline(blob) ==
    CHOOSE i \in NewlinesFromMidpoint(blob) :
        \A j \in NewlinesFromMidpoint(blob) : i <= j

\* s of the claim: the first newline at or after the midpoint, else the
\* midpoint.
InsertionPoint(blob) ==
    IF NewlinesFromMidpoint(blob) # {} THEN FirstNewline(blob)
                                       ELSE Len(blob) \div 2

\* The inserted block of the claim.
Block ==
    <<NL, NL>> \o get_instruction_prompt(DummyDomain)
    \o <<NL, NL, "QUESTION:", NL, NL, "** ">> \o original_query
    \o <<" **", NL, NL>>

Spliced == pc = "get_domains" /\ Len(context_files_content) > 0

(***************************************************************************)
(* C6.  Lossless midpoint splice: the spliced context is the blob up to s, *)
(* the block, and the blob from s on, where s is the first newline at or   *)
(* after the midpoint (the midpoint when there is none); taking the block  *)
(* out of it gives the blob back.                                          *)
(***************************************************************************)
C6_LosslessMidpointSplice ==
    Spliced =>
        LET blob == Blob
            L    == Len(blob)
            s    == InsertionPoint(blob)
            r    == full_context_for_llm
        IN  /\ r = SubSeq(blob, 1, s) \o Block \o SubSeq(blob, s + 1, L)
            /\ SubSeq(r, 1, s) \o SubSeq(r, s + Len(Block) + 1, Len(r)) = blob

C6_Witness ==
    /\ Spliced
    /\ Len(context_files_content) = 2
    /\ NewlinesFromMidpoint(Blob) # {}
    /\ InsertionPoint(Blob) > Len(Blob) \div 2
    /\ InsertionPoint(Blob) < Len(Blob) - 1

(***************************************************************************)
(* C10, as claimed.  When the blob has a newline at or after its midpoint, *)
(* the block is inserted just after that newline, which stays in the part  *)
(* of the blob before the block; otherwise at the midpoint.                *)
(***************************************************************************)
C10_InsertedAfterTheNewline ==
    Spliced =>
        LET blob == Blob
            L    == Len(blob)
            r    == full_context_for_llm
        IN  IF NewlinesFromMidpoint(blob) # {}
            THEN LET nl == FirstNewline(blob)
                 IN  r = SubSeq(blob, 1, nl + 1) \o Block
                         \o SubSeq(blob, nl + 2, L)
            ELSE r = SubSeq(blob, 1, L \div 2) \o Block
                     \o SubSeq(blob, L \div 2 + 1, L)

(***************************************************************************)
(* C10, amended.  When the blob has a newline at or after its midpoint,    *)
(* the block is inserted just before that newline: the blob up to the      *)
(* newline comes first, then the block, and the newline is the first       *)
(* character after the block; otherwise the block sits at the midpoint.    *)
(***************************************************************************)
C10_InsertedBeforeTheNewline ==
    Spliced =>
        LET blob == Blob
            L    == Len(blob)
            r    == full_context_for_llm
            at   == IF NewlinesFromMidpoint(blob) # {} THEN FirstNewline(blob)
                                                       ELSE L \div 2
        IN  /\ Len(r) = L + Len(Block)
            /\ SubSeq(r, 1, at) = SubSeq(blob, 1, at)
            /\ SubSeq(r, at + 1, at + Len(Block)) = Block
            /\ NewlinesFromMidpoint(blob) # {} =>
                  /\ r[at + Len(Block) + 1] = NL
                  /\ SubSeq(r, at + Len(Block) + 1, Len(r))
                        = SubSeq(blob, at + 1, L)

C10_Witness ==
    /\ Spliced
    /\ NewlinesFromMidpoint(Blob) # {}
    /\ FirstNewline(Blob) = Len(Blob) \div 2
    /\ FirstNewline(Blob) > 0
    /\ Blob[FirstNewline(Blob)] # NL

(***************************************************************************)
(* The layout of the final prompt, as the claim describes it.              *)
(***************************************************************************)
InstructionBlock(domain) ==
    <<"INSTRUCTION PROMPT:", NL, NL>> \o get_instruction_prompt(domain)
    \o <<NL, NL>> \o original_query

ContextGiven == Len(context_files_content) > 0

\* A step in which a pool thread posts the prompt of a domain (WorkerStart).
PostsDomainCall ==
    /\ Len(calls') = Len(calls) + 1
    /\ calls'[Len(calls')].purpose = "domain"

\* The domain of the task that step starts.
PostedDomain == futures[Head(work_queue)].domain

(***************************************************************************)
(* C7, as claimed.  With a context, the prompt every domain call posts     *)
(* holds exactly two occurrences of the domain's instruction prompt and    *)
(* exactly two of the query, laid out as block, CONTEXT, REMINDER, block;  *)
(* with no context it holds exactly one of each and is the block alone.    *)
(***************************************************************************)
C7_ExactlyTwoOccurrences ==
    [][PostsDomainCall =>
        LET p     == calls'[Len(calls')].prompt
            instr == get_instruction_prompt(PostedDomain)
        IN  IF ContextGiven
            THEN /\ Occurrences(instr, p) = 2
                 /\ Occurrences(original_query, p) = 2
            ELSE /\ Occurrences(instr, p) = 1
                 /\ Occurrences(original_query, p) = 1
                 /\ p = InstructionBlock(PostedDomain)]_vars

(***************************************************************************)
(* C7, amended.  With a context, the prompt every domain call posts is the *)
(* block header + instruction + query, the CONTEXT header and the context, *)
(* the REMINDER header and the same block again, so the instruction prompt *)
(* and the query each occur twice outside the context; the context main    *)
(* passes holds the query once more, three occurrences in all.  With no    *)
(* context the prompt is the block alone, with no CONTEXT and no REMINDER. *)
(***************************************************************************)
C7_RepetitionAroundTheContext ==
    [][PostsDomainCall =>
        LET p     == calls'[Len(calls')].prompt
            instr == get_instruction_prompt(PostedDomain)
            block == InstructionBlock(PostedDomain)
        IN  IF ContextGiven
            THEN /\ p = block
                        \o <<NL, NL, "CONTEXT:", NL, NL>> \o full_context_for_llm
                        \o <<NL, NL, "** REMINDER **", NL, NL>> \o block
                 /\ Occurrences(instr, p) >= 2
                 /\ Occurrences(original_query, full_context_for_llm) >= 1
                 /\ Occurrences(original_query, p)
                        = 2 + Occurrences(original_query, full_context_for_llm)
            ELSE /\ p = block
                 /\ ~Contains(<<"CONTEXT:">>, p)
                 /\ ~Contains(<<"** REMINDER **">>, p)]_vars

C7_Witness ==
    /\ ContextGiven
    /\ Cardinality(Started) = 2
    /\ futures[1].domain # futures[2].domain
    /\ Occurrences(original_query, CallOfTask(2).prompt) = 3

(***************************************************************************)
(* C8.  Synthesis prompt construction: synthesize_wisdom posts exactly one *)
(* call, to the main model at the synthesis temperature and without JSON   *)
(* mode, whose prompt is the synthesis template with its responses slot    *)
(* replaced by the fragments, in the order collected, joined by single     *)
(* newlines, and its query slot by the query; the prompt it returns is     *)
(* that prompt.                                                            *)
(***************************************************************************)
RECURSIVE JoinedByNewline(_)
JoinedByNewline(F) ==
    IF Len(F) = 0 THEN <<>>
    ELSE IF Len(F) = 1 THEN F[1]
    ELSE JoinedByNewline(SubSeq(F, 1, Len(F) - 1)) \o <<NL>> \o F[Len(F)]

SlotAt(name) ==
    CHOOSE k \in 1..Len(Config.synthesis_template) :
        Config.synthesis_template[k] = name

ExpectedSynthesisPrompt ==
    LET T == Config.synthesis_template
        a == SlotAt("{responses}")
        b == SlotAt("{query}")
    IN  SubSeq(T, 1, a - 1) \o JoinedByNewline(individual_responses)
        \o SubSeq(T, a + 1, b - 1) \o original_query
        \o SubSeq(T, b + 1, Len(T))

C8_SynthesisPrompt ==
    /\ pc = "synthesize" => SynthesisCalls = {}
    /\ SynthesisReached =>
          /\ SynthesisCalls = {Len(calls)}
          /\ calls[Len(calls)].prompt = ExpectedSynthesisPrompt
          /\ calls[Len(calls)].model = Config.llm_model
          /\ calls[Len(calls)].temperature = "0.5"
          /\ calls[Len(calls)].json_mode = FALSE
    /\ pc \in {"report", "done"} =>
          /\ synthesis_prompt = ExpectedSynthesisPrompt
          /\ synthesis_prompt = calls[Len(calls)].prompt

C8_Witness ==
    /\ pc = "report"
    /\ Len(individual_responses) = 2
    /\ individual_responses[1] = <<"{query}">>
    /\ individual_responses[2] = <<"B", NL>>
    /\ Occurrences(<<NL, "B", NL>>, synthesis_prompt) = 1

(***************************************************************************)
(* C9.  Fatal setup errors precede all work: with no query, or with the    *)
(* query file, a context file or the configuration missing, the run never  *)
(* gets past the setup, posts no call and ends by exit status 1; and no    *)
(* call is posted in any run before the query, every context file and the  *)
(* configuration are loaded.                                               *)
(***************************************************************************)
SetupError ==
    \/ ~env.file.given /\ Len(env.query) = 0
    \/ env.file.given /\ ~env.file.path.exists
    \/ \E k \in 1..Len(env.context) : ~env.context[k].exists
    \/ ~env.yaml

InSetup == pc \in {"read_query", "read_context", "init_agent"}

C9_FatalSetupErrorsPrecedeWork ==
    /\ SetupError =>
          /\ calls = <<>>
          /\ InSetup \/ pc = "exited"
          /\ InSetup => ENABLED Next
          /\ pc = "exited" => exit_status = "1"
    /\ calls # <<>> =>
          /\ ~InSetup
          /\ original_query = IF env.file.given THEN env.file.path.text
                                                ELSE env.query
          /\ context_files_content
                = [k \in 1..Len(env.context) |-> env.context[k].text]
          /\ env.yaml

C9_Witness ==
    /\ pc = "exited"
    /\ exit_status = "1"
    /\ ~env.yaml
    /\ Len(context_files_content) = MaxCtxFiles
    /\ Len(original_query) > 0

====
